---- MODULE Spec2Model ----
(***************************************************************************)
(* Damper Thermostat (custom_components/damper_thermostat/climate.py).     *)
(*                                                                         *)
(* Thermostat instances run inside one cooperative event loop.  A handler  *)
(* (an event callback, a service handler, a control pass) never suspends   *)
(* before it returns: the only awaits are on coroutines of the class       *)
(* itself and on services.async_call(..., blocking=False), which hands the *)
(* command to the host and returns.  So every handler is one action, and   *)
(* the commands it has issued are messages in flight (inflight) which the  *)
(* host applies to the state store later, in the order they were issued.   *)
(*                                                                         *)
(* Temperatures are fixed-point: a reading or a target is a whole number   *)
(* of tenths of a degree, and the cached mean is kept in units of          *)
(* 1/(10*Scale) degree so that sum/len is exact.                           *)
(***************************************************************************)
EXTENDS Integers, Sequences, FiniteSets, TLC

\* ---------------------------------------------------------------- bounds
\* NumSwitches: the switch entities of the host.  MaxPending: control tasks
\* one instance may have waiting.  MaxInflight: service calls in flight.
NumSwitches == 3
MaxPending == 1
MaxInflight == 2
\* MaxPasses: control passes of one instance that have begun and not finished.
MaxPasses == 2

\* ------------------------------------------------------- program constants
\* (const.py; temperatures and tolerances in tenths of a degree)
DEFAULT_TOLERANCE == 5
DEFAULT_MIN_TEMP == 600
DEFAULT_TARGET_TEMP == 740
DEFAULT_TARGET_TEMP_LOW == 720
DEFAULT_TARGET_TEMP_HIGH == 760
DEFAULT_MAX_SWITCHES_OFF == 3

\* ------------------------------------------------------------ configuration
Inst == {1, 2}
Switches == 1..NumSwitches
Sensors == {1, 2, 3}
\* self._cur_temp = None
NoTemp == -1

\* _actuator_switch_entity_id: instance i commands switch i.
actuator_switch(i) == i

\* _temperature_sensor_entity_ids: instance 1 averages sensors 1 and 2,
\* instance 2 reads sensor 3.
temperature_sensors(i) == IF i = 1 THEN <<1, 2>> ELSE <<3>>

\* Exactness of the mean: every list length divides Scale.
Scale == 2

HVAC_MODES == {"heat", "cool", "auto", "heat_cool", "off"}
Readings == {"68.0", "70.0", "71.5", "72.5", "77.0"}
\* "warm": a state that is present and that float() rejects.  An entity that is
\* not in the state store is treated as "unavailable" is, both by
\* _async_update_temp and by _async_sensor_changed.
SensorStates == Readings \cup {"unknown", "unavailable", "warm"}
Targets == {700, 720}
SwitchStates == {"on", "off", "unavailable"}
MainActions == {"missing", "heating", "preheating", "cooling", "idle"}
MainModes == {"missing", "heat", "cool"}
\* The upstream climate entity as hass.states.get returns it: state "none" is
\* an entity that is not in the state store.
NoMain == [state |-> "none", hvac_action |-> "missing", hvac_mode |-> "missing"]
MainEntity == [state : {"ok", "unavailable"}, hvac_action : MainActions, hvac_mode : MainModes]
\* An upstream entity that is unknown or unavailable carries no attributes.
MainUnavailable == [state |-> "unavailable", hvac_action |-> "missing", hvac_mode |-> "missing"]

\* The priority lists a group can be configured with (earlier = higher priority).
RECURSIVE Ascending(_)
Ascending(n) == IF n = 0 THEN <<>> ELSE Append(Ascending(n - 1), n)
RECURSIVE Descending(_)
Descending(n) == IF n = 0 THEN <<>> ELSE <<n>> \o Descending(n - 1)
\* <<2, 1, 3, ...>>
SecondFirst(n) == <<2, 1>> \o SubSeq(Ascending(n), 3, n)
GroupLists == {Ascending(NumSwitches), Descending(NumSwitches), SecondFirst(NumSwitches),
               Tail(Ascending(NumSwitches)), <<>>}
Ceilings == {0, 1, 2, DEFAULT_MAX_SWITCHES_OFF}

VARIABLES
  sw,                  \* host state store: the state of every switch entity
  sensor,              \* host state store: the state of every temperature sensor
  main,                \* host state store: the upstream climate entity, or None
  inflight,            \* service calls issued and not yet applied by the host
  actuator_switches,   \* _actuator_switches_entity_ids (configuration)
  max_switches_off,    \* _max_switches_off (configuration)
  main_thermostat,     \* _main_thermostat_entity_id is set (configuration, per instance)
  target_temperature_low,   \* _attr_target_temperature_low (assigned by __init__ only)
  target_temperature_high,  \* _attr_target_temperature_high (assigned by __init__ only)
  hass_running,        \* hass.state == "running"
  start_listener,      \* a control pass waits for EVENT_HOMEASSISTANT_START (per instance)
  added,               \* async_added_to_hass has run (per instance)
  hvac_mode,           \* _attr_hvac_mode
  target_temperature,  \* _attr_target_temperature
  cur_temp,            \* _cur_temp
  hvac_action,         \* _attr_hvac_action
  active,              \* _active
  on_by_us,            \* _on_by_us
  pending,             \* control tasks created by async_create_task, not yet run
  temp_lock,           \* _temp_lock: the pass that holds it (0: free) and those waiting
  passes,              \* the control passes that have begun: where each one is
  last                 \* the handler that ran last and what it issued

storeVars == <<sw, sensor, main, inflight, hass_running>>
configVars == <<actuator_switches, max_switches_off, main_thermostat,
                target_temperature_low, target_temperature_high>>
instVars == <<added, start_listener, hvac_mode, target_temperature, cur_temp, hvac_action, active, on_by_us, pending>>
lockVars == <<temp_lock, passes>>
vars == <<storeVars, configVars, instVars, lockVars, last>>

\* ---------------------------------------------------------------- helpers
RECURSIVE IndexFrom(_, _, _)
\* list.index(x): the first position k >= from with list[k] = x, 0 when there is none.
IndexFrom(list, x, from) ==
  IF from > Len(list) THEN 0
  ELSE IF list[from] = x THEN from
  ELSE IndexFrom(list, x, from + 1)

Cmd(service, entity) == [service |-> service, entity |-> entity]

\* float(sensor_state.state), in tenths of a degree
Float(v) ==
  CASE v = "68.0" -> 680
    [] v = "70.0" -> 700
    [] v = "71.5" -> 715
    [] v = "72.5" -> 725
    [] v = "77.0" -> 770

\* float() does not raise ValueError
Parses(v) == v \in Readings

\* the state exists, is not unknown/unavailable, and float() does not raise
Numeric(v) == v \notin {"unknown", "unavailable"} /\ Parses(v)

RECURSIVE SumValid(_, _, _)
\* sum(temperatures) over the sensors of ids[k..] whose state parses as a number
SumValid(store, ids, k) ==
  IF k > Len(ids) THEN 0
  ELSE (IF Numeric(store[ids[k]]) THEN Float(store[ids[k]]) ELSE 0) + SumValid(store, ids, k + 1)

\* len(temperatures)
CountValid(store, ids) == Cardinality({k \in 1..Len(ids) : Numeric(store[ids[k]])})

\* Mutant: the sum of the valid readings is divided by the number of configured
\* sensors.
UpdateTemp_AllSensors(i, store) ==
  LET ids == temperature_sensors(i)
      n == CountValid(store, ids)
  IN IF n = 0 THEN cur_temp[i]
     ELSE (SumValid(store, ids, 1) * Scale) \div Len(ids)

\* _async_update_temp: the new value of _cur_temp, read from the state store
UpdateTemp(i, store) ==
  LET ids == temperature_sensors(i)
      n == CountValid(store, ids)
  IN IF n = 0 THEN cur_temp[i]
     ELSE (SumValid(store, ids, 1) * Scale) \div n

\* _async_update_main_thermostat_state: the new value of _attr_hvac_action
UpdateMainAction(i, state) ==
  IF state.state \in {"none", "unavailable"} THEN hvac_action[i]
  ELSE IF state.hvac_action = "missing" THEN "off" ELSE state.hvac_action

\* _async_is_device_active
IsDeviceActive(i) == sw[actuator_switch(i)] = "on"

\* Mutant: a member that is missing or unavailable reads "off".
SwitchesStatus_UnavailableOff ==
  [k \in 1..Len(actuator_switches) |->
     IF sw[actuator_switches[k]] = "unavailable" THEN "off"
     ELSE sw[actuator_switches[k]]]

\* _async_get_actuator_switches_status: a missing entity reads "unavailable"
SwitchesStatus == [k \in 1..Len(actuator_switches) |-> sw[actuator_switches[k]]]

\* current_off_count
OffCount == Cardinality({k \in 1..Len(actuator_switches) : SwitchesStatus[k] = "off"})

\* Mutant: the scan for a member to turn on starts at the head of the list.
LowerPriorityOff_AnyOff(pos) == IndexFrom(SwitchesStatus, "off", 1)

\* the first member after position pos that is "off" (0: none)
LowerPriorityOff(pos) == IndexFrom(SwitchesStatus, "off", pos + 1)

\* Mutant: a turn-on is refused while the group is over its ceiling, and at the
\* ceiling it also hands the head of the list a turn_off.
ActuatorTurnOn_Arbitrated(i) ==
  IF OffCount > max_switches_off
    THEN [cmds |-> <<>>, by_us |-> on_by_us[i]]
  ELSE IF OffCount = max_switches_off /\ actuator_switches # <<>>
              /\ actuator_switches[1] # actuator_switch(i)
    THEN [cmds |-> <<Cmd("turn_on", actuator_switch(i)), Cmd("turn_off", actuator_switches[1])>>,
          by_us |-> TRUE]
  ELSE [cmds |-> <<Cmd("turn_on", actuator_switch(i))>>, by_us |-> TRUE]

\* _async_actuator_turn_on: the commands issued and the new _on_by_us
ActuatorTurnOn(i) ==
  [cmds |-> <<Cmd("turn_on", actuator_switch(i))>>, by_us |-> TRUE]

\* Mutant: the off-count is not compared to the ceiling.
ActuatorTurnOff_NoCeiling(i) ==
  [cmds |-> <<Cmd("turn_off", actuator_switch(i))>>, by_us |-> TRUE]

\* Mutant: the handoff turns the requester off before it turns the other member on.
ActuatorTurnOff_OffFirst(i) ==
  LET me == actuator_switch(i)
      my_position == IndexFrom(actuator_switches, me, 1)
      cand == IndexFrom(SwitchesStatus, "off", my_position + 1)
  IN IF OffCount < max_switches_off
       THEN [cmds |-> <<Cmd("turn_off", me)>>, by_us |-> TRUE]
     ELSE IF my_position = 0 \/ cand = 0
       THEN [cmds |-> <<>>, by_us |-> on_by_us[i]]
     ELSE [cmds |-> <<Cmd("turn_off", me), Cmd("turn_on", actuator_switches[cand])>>,
           by_us |-> TRUE]

\* Mutant: _on_by_us is set before the arbiter decides.
ActuatorTurnOff_FlagEarly(i) ==
  LET me == actuator_switch(i)
      my_position == IndexFrom(actuator_switches, me, 1)
      cand == IndexFrom(SwitchesStatus, "off", my_position + 1)
  IN IF OffCount < max_switches_off
       THEN [cmds |-> <<Cmd("turn_off", me)>>, by_us |-> TRUE]
     ELSE IF my_position = 0 \/ cand = 0
       THEN [cmds |-> <<>>, by_us |-> TRUE]
     ELSE [cmds |-> <<Cmd("turn_on", actuator_switches[cand]), Cmd("turn_off", me)>>,
           by_us |-> TRUE]

\* Mutant: the off-count is compared to the ceiling as if the requester were
\* off already.
ActuatorTurnOff_CeilingOffByOne(i) ==
  LET me == actuator_switch(i)
      my_position == IndexFrom(actuator_switches, me, 1)
      cand == IndexFrom(SwitchesStatus, "off", my_position + 1)
  IN IF OffCount + 1 < max_switches_off
       THEN [cmds |-> <<Cmd("turn_off", me)>>, by_us |-> TRUE]
     ELSE IF my_position = 0 \/ cand = 0
       THEN [cmds |-> <<>>, by_us |-> on_by_us[i]]
     ELSE [cmds |-> <<Cmd("turn_on", actuator_switches[cand]), Cmd("turn_off", me)>>,
           by_us |-> TRUE]

\* _async_actuator_turn_off: the commands issued and the new _on_by_us
ActuatorTurnOff(i) ==
  LET me == actuator_switch(i)
      my_position == IndexFrom(actuator_switches, me, 1)
      cand == LowerPriorityOff(my_position)
  IN IF OffCount < max_switches_off
       THEN [cmds |-> <<Cmd("turn_off", me)>>, by_us |-> TRUE]
     ELSE IF my_position = 0
       THEN [cmds |-> <<>>, by_us |-> on_by_us[i]]
     ELSE IF cand = 0
       THEN [cmds |-> <<>>, by_us |-> on_by_us[i]]
     ELSE [cmds |-> <<Cmd("turn_on", actuator_switches[cand]), Cmd("turn_off", me)>>,
           by_us |-> TRUE]

NoCommand(i) == [cmds |-> <<>>, by_us |-> on_by_us[i]]

\* Mutant: the turn-on threshold excludes the boundary.
TooCold_Strict(cur, tgt) == tgt * Scale > cur + DEFAULT_TOLERANCE * Scale

\* too_cold, too_hot of _async_control_based_on_temperature
TooCold(cur, tgt) == tgt * Scale >= cur + DEFAULT_TOLERANCE * Scale
TooHot(cur, tgt) == cur >= tgt * Scale + DEFAULT_TOLERANCE * Scale

\* Mutant: auto mode opens the actuator only when the room is too cold.
DecideOnTemperature_AutoHeatsOnly(i, mode, tgt, cur) ==
  IF IsDeviceActive(i)
    THEN IF mode = "heat" /\ ~TooCold(cur, tgt) THEN "off"
         ELSE IF mode = "cool" /\ ~TooHot(cur, tgt) THEN "off"
         ELSE IF mode = "auto" /\ ~TooCold(cur, tgt) /\ ~TooHot(cur, tgt) THEN "off"
         ELSE "none"
    ELSE IF mode = "heat" /\ TooCold(cur, tgt) THEN "on"
         ELSE IF mode = "cool" /\ TooHot(cur, tgt) THEN "on"
         ELSE IF mode = "auto" /\ TooCold(cur, tgt) THEN "on"
         ELSE "none"

\* Mutant: the decision does not look at the state of the actuator.
DecideOnTemperature_Blind(i, mode, tgt, cur) ==
  IF mode = "heat" THEN (IF TooCold(cur, tgt) THEN "on" ELSE "off")
  ELSE IF mode = "cool" THEN (IF TooHot(cur, tgt) THEN "on" ELSE "off")
  ELSE IF mode = "auto"
    THEN (IF TooCold(cur, tgt) \/ TooHot(cur, tgt) THEN "on" ELSE "off")
  ELSE "none"

\* Mutant: mode heat_cool is handled as mode auto is.
DecideOnTemperature_HeatCoolAsAuto(i, mode, tgt, cur) ==
  LET band == mode \in {"auto", "heat_cool"}
  IN IF IsDeviceActive(i)
       THEN IF mode = "heat" /\ ~TooCold(cur, tgt) THEN "off"
            ELSE IF mode = "cool" /\ ~TooHot(cur, tgt) THEN "off"
            ELSE IF band /\ ~TooCold(cur, tgt) /\ ~TooHot(cur, tgt) THEN "off"
            ELSE "none"
       ELSE IF mode = "heat" /\ TooCold(cur, tgt) THEN "on"
            ELSE IF mode = "cool" /\ TooHot(cur, tgt) THEN "on"
            ELSE IF band /\ (TooCold(cur, tgt) \/ TooHot(cur, tgt)) THEN "on"
            ELSE "none"

\* _async_control_based_on_temperature: "on", "off" or "none"
DecideOnTemperature(i, mode, tgt, cur) ==
  IF IsDeviceActive(i)
    THEN IF mode = "heat" /\ ~TooCold(cur, tgt) THEN "off"
         ELSE IF mode = "cool" /\ ~TooHot(cur, tgt) THEN "off"
         ELSE IF mode = "auto" /\ ~TooCold(cur, tgt) /\ ~TooHot(cur, tgt) THEN "off"
         ELSE "none"
    ELSE IF mode = "heat" /\ TooCold(cur, tgt) THEN "on"
         ELSE IF mode = "cool" /\ TooHot(cur, tgt) THEN "on"
         ELSE IF mode = "auto" /\ (TooCold(cur, tgt) \/ TooHot(cur, tgt)) THEN "on"
         ELSE "none"

\* main_state.attributes.get("hvac_action", OFF), .get("hvac_mode", OFF)
MainAction == IF main.hvac_action = "missing" THEN "off" ELSE main.hvac_action
MainMode == IF main.hvac_mode = "missing" THEN "off" ELSE main.hvac_mode

\* Mutant: opposite modes of the two thermostats are not looked at.
ShouldDeactivate_NoConflict(i, mode, tgt, cur) ==
  \/ /\ mode = "cool"
     /\ MainAction = "cooling"
     /\ tgt * Scale >= cur + DEFAULT_TOLERANCE * Scale
  \/ /\ mode = "heat"
     /\ MainAction \in {"heating", "preheating"}
     /\ tgt * Scale <= cur - DEFAULT_TOLERANCE * Scale

\* should_deactivate of _async_control_based_on_main_thermostat
ShouldDeactivate(i, mode, tgt, cur) ==
  LET opposite == \/ mode = "cool" /\ MainMode = "heat"
                  \/ mode = "heat" /\ MainMode = "cool"
      band == mode \in {"auto", "heat_cool"}
      band_cold == /\ band
                   /\ MainMode = "cool"
                   /\ target_temperature_low[i] * Scale >= cur + DEFAULT_TOLERANCE * Scale
      band_heat == /\ band
                   /\ MainMode = "heat"
                   /\ target_temperature_high[i] * Scale <= cur - DEFAULT_TOLERANCE * Scale
      enough_cold == /\ mode = "cool"
                     /\ MainAction = "cooling"
                     /\ tgt * Scale >= cur + DEFAULT_TOLERANCE * Scale
      enough_heat == /\ mode = "heat"
                     /\ MainAction \in {"heating", "preheating"}
                     /\ tgt * Scale <= cur - DEFAULT_TOLERANCE * Scale
  IN IF band
       THEN band_cold \/ band_heat
       ELSE opposite \/ enough_cold \/ enough_heat

\* Mutant: with the upstream entity missing, an open actuator is closed.
DecideOnMainThermostat_MissingCloses(i, mode, tgt, cur) ==
  IF main.state = "none" THEN (IF IsDeviceActive(i) THEN "off" ELSE "none")
  ELSE IF ShouldDeactivate(i, mode, tgt, cur) /\ IsDeviceActive(i) THEN "off"
  ELSE IF ~ShouldDeactivate(i, mode, tgt, cur) /\ ~IsDeviceActive(i) THEN "on"
  ELSE "none"

\* _async_control_based_on_main_thermostat: "on", "off" or "none"
DecideOnMainThermostat(i, mode, tgt, cur) ==
  IF main.state = "none" THEN "none"
  ELSE IF ShouldDeactivate(i, mode, tgt, cur) /\ IsDeviceActive(i) THEN "off"
  ELSE IF ~ShouldDeactivate(i, mode, tgt, cur) /\ ~IsDeviceActive(i) THEN "on"
  ELSE "none"

\* "on"/"off"/"none" realised by the actuator methods
Realise(i, dec) ==
  IF dec = "on" THEN ActuatorTurnOn(i)
  ELSE IF dec = "off" THEN ActuatorTurnOff(i)
  ELSE NoCommand(i)

\* Mutant: _active follows the sensors: it is true only while a temperature is
\* cached and one sensor at least has a valid reading.
ControlHeatingCooling_ActiveFollowsSensors(i, mode, tgt, cur) ==
  LET act == cur # NoTemp /\ CountValid(sensor, temperature_sensors(i)) > 0
      dec == IF ~act \/ mode = "off" THEN "none"
             ELSE IF ~main_thermostat[i] THEN DecideOnTemperature(i, mode, tgt, cur)
             ELSE DecideOnMainThermostat(i, mode, tgt, cur)
      r == Realise(i, dec)
  IN [active |-> act, dec |-> dec, cmds |-> r.cmds, by_us |-> r.by_us]

\* Mutant: a control pass in mode off decides as one in mode heat does.
ControlHeatingCooling_OffHeats(i, mode, tgt, cur) ==
  LET act == active[i] \/ cur # NoTemp
      m == IF mode = "off" THEN "heat" ELSE mode
      dec == IF ~act THEN "none"
             ELSE IF ~main_thermostat[i] THEN DecideOnTemperature(i, m, tgt, cur)
             ELSE DecideOnMainThermostat(i, m, tgt, cur)
      r == Realise(i, dec)
  IN [active |-> act, dec |-> dec, cmds |-> r.cmds, by_us |-> r.by_us]

\* Mutant: a control pass in mode off closes an actuator it finds on.
ControlHeatingCooling_OffCloses(i, mode, tgt, cur) ==
  LET act == active[i] \/ cur # NoTemp
      dec == IF ~act THEN "none"
             ELSE IF mode = "off" THEN (IF IsDeviceActive(i) THEN "off" ELSE "none")
             ELSE IF ~main_thermostat[i] THEN DecideOnTemperature(i, mode, tgt, cur)
             ELSE DecideOnMainThermostat(i, mode, tgt, cur)
      r == Realise(i, dec)
  IN [active |-> act, dec |-> dec, cmds |-> r.cmds, by_us |-> r.by_us]

\* Mutant: _active is set by the first pass, whether or not a temperature is cached.
ControlHeatingCooling_AlwaysActive(i, mode, tgt, cur) ==
  LET dec == IF mode = "off" THEN "none"
             ELSE IF ~main_thermostat[i] THEN DecideOnTemperature(i, mode, tgt, cur)
             ELSE DecideOnMainThermostat(i, mode, tgt, cur)
      r == Realise(i, dec)
  IN [active |-> TRUE, dec |-> dec, cmds |-> r.cmds, by_us |-> r.by_us]

\* _async_control_heating_cooling, run with mode, target and cached temperature
\* as the caller has just set them: the new _active, the decision, the commands
\* issued and the new _on_by_us.
ControlHeatingCooling(i, mode, tgt, cur) ==
  LET act == active[i] \/ cur # NoTemp
      dec == IF ~act \/ mode = "off" THEN "none"
             ELSE IF ~main_thermostat[i] THEN DecideOnTemperature(i, mode, tgt, cur)
             ELSE DecideOnMainThermostat(i, mode, tgt, cur)
      r == Realise(i, dec)
  IN [active |-> act, dec |-> dec, cmds |-> r.cmds, by_us |-> r.by_us]

\* ---------------------------------------------------------------- actions
\* The slots of the control passes of one instance that are under way.
Passes == 1..MaxPasses
\* asyncio.Lock(): nobody holds it, nobody waits
Unlocked == [holder |-> 0, waiters |-> <<>>]
\* a slot without a pass
Idle == [pc |-> "idle", todo |-> <<>>]

\* What a handler of instance i leaves behind: its commands go in flight.
Handled(op, i, r) ==
  /\ Len(inflight) + Len(r.cmds) <= MaxInflight
  /\ inflight' = inflight \o r.cmds
  /\ active' = [active EXCEPT ![i] = r.active]
  /\ on_by_us' = [on_by_us EXCEPT ![i] = r.by_us]
  /\ last' = [op |-> op, inst |-> i, dec |-> r.dec, cmds |-> r.cmds,
              by_us0 |-> on_by_us[i]]

\* Not a handler that decides: the store changed, or an event was only recorded.
Quiet == [op |-> "none", inst |-> 0, dec |-> "none", cmds |-> <<>>, by_us0 |-> FALSE]

\* The state the host saved for the entity before its last shutdown: none, or
\* the mode it was in, or "unknown".
SavedTargets == {NoTemp, 700}
OldStates == [state : {"none", "unknown"} \cup HVAC_MODES, temperature : SavedTargets]

\* async_added_to_hass: the mode after the restore.  A saved state other than
\* "unknown" replaces the mode, configured or not.
RestoredMode(i, old) ==
  IF old.state \in {"none", "unknown"} THEN hvac_mode[i] ELSE old.state

\* async_added_to_hass: the target after the restore.  Only a target of None is
\* replaced, by the saved temperature or else by min_temp.
RestoredTarget(i, old) ==
  IF target_temperature[i] # NoTemp THEN target_temperature[i]
  ELSE IF old.state = "none" \/ old.temperature = NoTemp THEN DEFAULT_MIN_TEMP
  ELSE old.temperature

\* async_added_to_hass: subscribe, restore the saved mode (the target is
\* configured, so it is not restored), seed the cached temperature and upstream
\* action, then run the first control pass, or leave it to the host's start event.
AddedToHass(i, old) ==
  /\ ~added[i]
  /\ added' = [added EXCEPT ![i] = TRUE]
  /\ hvac_mode' = [hvac_mode EXCEPT ![i] = RestoredMode(i, old)]
  /\ target_temperature' = [target_temperature EXCEPT ![i] = RestoredTarget(i, old)]
  /\ cur_temp' = [cur_temp EXCEPT ![i] = UpdateTemp(i, sensor)]
  /\ hvac_action' = [hvac_action EXCEPT ![i] =
                       IF main_thermostat[i] THEN UpdateMainAction(i, main) ELSE @]
  /\ IF hass_running
       THEN /\ Handled("added", i,
                       ControlHeatingCooling(i, hvac_mode'[i], target_temperature'[i],
                                             cur_temp'[i]))
            /\ UNCHANGED start_listener
       ELSE /\ start_listener' = [start_listener EXCEPT ![i] = TRUE]
            /\ last' = Quiet
            /\ UNCHANGED <<inflight, active, on_by_us>>
  /\ UNCHANGED <<sw, sensor, main, hass_running, configVars, pending>>
  /\ UNCHANGED lockVars

\* _async_update_temp called on its own, on the state store as it is.
UpdateTempCalled(i) ==
  /\ cur_temp' = [cur_temp EXCEPT ![i] = UpdateTemp(i, sensor)]
  /\ last' = [op |-> "update_temp", inst |-> i, dec |-> "none", cmds |-> <<>>,
              by_us0 |-> on_by_us[i]]
  /\ UNCHANGED <<storeVars, configVars, added, start_listener, hvac_mode,
                 target_temperature, hvac_action, active, on_by_us, pending>>
  /\ UNCHANGED lockVars

\* EVENT_HOMEASSISTANT_START: the host has started; the listeners registered by
\* async_listen_once become control tasks.
HomeAssistantStart ==
  /\ ~hass_running
  /\ hass_running' = TRUE
  /\ \A i \in Inst : start_listener[i] => pending[i] < MaxPending
  /\ pending' = [i \in Inst |-> IF start_listener[i] THEN pending[i] + 1 ELSE pending[i]]
  /\ start_listener' = [i \in Inst |-> FALSE]
  /\ last' = Quiet
  /\ UNCHANGED <<sw, sensor, main, inflight, configVars, added, hvac_mode,
                 target_temperature, cur_temp, hvac_action, active, on_by_us>>
  /\ UNCHANGED lockVars

\* The control task created by an event handler runs.
ControlTask(i) ==
  /\ pending[i] > 0
  /\ pending' = [pending EXCEPT ![i] = @ - 1]
  /\ Handled("control", i,
             ControlHeatingCooling(i, hvac_mode[i], target_temperature[i], cur_temp[i]))
  /\ UNCHANGED <<sw, sensor, main, hass_running, configVars, added, start_listener,
                 hvac_mode, target_temperature, cur_temp, hvac_action>>
  /\ UNCHANGED lockVars

\* Mutant: switching to off closes the actuator only of an active instance.
SetHvacMode_OnlyActive(i, mode) ==
  /\ added[i]
  /\ hvac_mode' = [hvac_mode EXCEPT ![i] = mode]
  /\ IF mode # "off"
       THEN Handled("set_mode", i,
                    ControlHeatingCooling(i, mode, target_temperature[i], cur_temp[i]))
       ELSE LET on == active[i] /\ IsDeviceActive(i)
                r == IF on THEN ActuatorTurnOff(i) ELSE NoCommand(i)
            IN Handled("set_off", i,
                       [active |-> active[i], dec |-> IF on THEN "off" ELSE "none",
                        cmds |-> r.cmds, by_us |-> r.by_us])
  /\ UNCHANGED <<sw, sensor, main, hass_running, configVars, added, start_listener,
                 target_temperature, cur_temp, hvac_action, pending>>
  /\ UNCHANGED lockVars

\* async_set_hvac_mode
SetHvacMode(i, mode) ==
  /\ added[i]
  /\ hvac_mode' = [hvac_mode EXCEPT ![i] = mode]
  /\ IF mode # "off"
       THEN Handled("set_mode", i,
                    ControlHeatingCooling(i, mode, target_temperature[i], cur_temp[i]))
       ELSE LET r == IF IsDeviceActive(i) THEN ActuatorTurnOff(i) ELSE NoCommand(i)
            IN Handled("set_off", i,
                       [active |-> active[i],
                        dec |-> IF IsDeviceActive(i) THEN "off" ELSE "none",
                        cmds |-> r.cmds, by_us |-> r.by_us])
  /\ UNCHANGED <<sw, sensor, main, hass_running, configVars, added, start_listener,
                 target_temperature, cur_temp, hvac_action, pending>>
  /\ UNCHANGED lockVars

\* async_set_temperature with a temperature
SetTemperature(i, temperature) ==
  /\ added[i]
  /\ target_temperature' = [target_temperature EXCEPT ![i] = temperature]
  /\ Handled("set_temp", i,
             ControlHeatingCooling(i, hvac_mode[i], temperature, cur_temp[i]))
  /\ UNCHANGED <<sw, sensor, main, hass_running, configVars, added, start_listener,
                 hvac_mode, cur_temp, hvac_action, pending>>
  /\ UNCHANGED lockVars

\* The low/high pairs a set-temperature request carries.
Ranges == {<<700, 780>>, <<680, 700>>}

\* async_set_temperature with a low/high pair and no temperature:
\* kwargs.get(ATTR_TEMPERATURE) is None and the handler returns.
SetTemperatureRange(i, low, high) ==
  /\ added[i]
  /\ last' = [op |-> "set_range", inst |-> i, dec |-> "none", cmds |-> <<>>,
              by_us0 |-> on_by_us[i], low |-> low, high |-> high]
  /\ UNCHANGED <<storeVars, configVars, instVars>>
  /\ UNCHANGED lockVars

\* _async_sensor_changed of instance i for sensor s, the store already updated
Subscribed(i, s) == added[i] /\ IndexFrom(temperature_sensors(i), s, 1) # 0
SensorHears(i, s, new) == Subscribed(i, s) /\ new \notin {"unavailable", "unknown"}

\* A temperature sensor changes state; every subscribed instance handles the event.
SensorChanged(s, new) ==
  /\ sensor[s] # new
  /\ sensor' = [sensor EXCEPT ![s] = new]
  /\ \A i \in Inst : SensorHears(i, s, new) => pending[i] < MaxPending
  /\ cur_temp' = [i \in Inst |->
                    IF SensorHears(i, s, new) THEN UpdateTemp(i, sensor') ELSE cur_temp[i]]
  /\ pending' = [i \in Inst |-> IF SensorHears(i, s, new) THEN pending[i] + 1 ELSE pending[i]]
  /\ last' = Quiet
  /\ UNCHANGED <<sw, main, inflight, hass_running, configVars, added, start_listener,
                 hvac_mode, target_temperature, hvac_action, active, on_by_us>>
  /\ UNCHANGED lockVars

\* The upstream climate entity changes; _async_main_thermostat_changed runs.
MainThermostatChanged(new) ==
  /\ main # new
  /\ main' = new
  /\ hvac_action' = [i \in Inst |->
                       IF added[i] /\ main_thermostat[i] /\ new.state # "none"
                         THEN UpdateMainAction(i, new) ELSE hvac_action[i]]
  /\ last' = Quiet
  /\ UNCHANGED <<sw, sensor, inflight, hass_running, configVars, added, start_listener,
                 hvac_mode, target_temperature, cur_temp, active, on_by_us, pending>>
  /\ UNCHANGED lockVars

\* _async_switch_changed of the instance whose actuator is switch e
SwitchHears(i, e) == added[i] /\ actuator_switch(i) = e

SwitchChanged(e, new) ==
  /\ sw' = [sw EXCEPT ![e] = new]
  /\ \A i \in Inst : SwitchHears(i, e) /\ ~on_by_us[i] => pending[i] < MaxPending
  /\ pending' = [i \in Inst |->
                   IF SwitchHears(i, e) /\ ~on_by_us[i] THEN pending[i] + 1 ELSE pending[i]]
  /\ on_by_us' = [i \in Inst |-> IF SwitchHears(i, e) THEN FALSE ELSE on_by_us[i]]

\* Someone else (a person, another automation) changes a switch.
ExternalToggle(e, new) ==
  /\ sw[e] # new
  /\ SwitchChanged(e, new)
  /\ last' = Quiet
  /\ UNCHANGED <<sensor, main, inflight, hass_running, configVars, added, start_listener,
                 hvac_mode, target_temperature, cur_temp, hvac_action, active>>
  /\ UNCHANGED lockVars

\* The host applies the oldest service call in flight.  An unavailable entity is
\* skipped; a call that does not change the state fires no event.
Deliver ==
  /\ inflight # <<>>
  /\ inflight' = Tail(inflight)
  /\ LET c == Head(inflight)
         new == IF c.service = "turn_on" THEN "on" ELSE "off"
     IN IF sw[c.entity] \in {"unavailable", new}
          THEN UNCHANGED <<sw, pending, on_by_us>>
          ELSE SwitchChanged(c.entity, new)
  /\ last' = Quiet
  /\ UNCHANGED <<sensor, main, hass_running, configVars, added, start_listener,
                 hvac_mode, target_temperature, cur_temp, hvac_action, active>>
  /\ UNCHANGED lockVars

\* ------------------------------------------- control passes, step by step
\* The actions above run a control pass in one step, which is what happens when
\* the host's services.async_call returns without suspending.  The actions
\* below do not rely on it: a pass may be suspended at every await of
\* async_call, and other handlers of the instance run meanwhile.

\* Mutant: a pass enters the section without looking at the lock.
LockFree_Always(i) == TRUE

\* async with self._temp_lock, as asyncio.Lock.acquire decides it: the pass
\* enters at once when the lock is not held and nobody waits for it.
LockFree(i) == temp_lock[i].holder = 0 /\ temp_lock[i].waiters = <<>>

\* The locked section of _async_control_heating_cooling up to its first
\* suspension: pass t of instance i reads, decides and hands its first command
\* to the host; with nothing to command it leaves the section at once.
\* _on_by_us is set just before the command for the instance's own actuator.
Section(op, i, t, waiting, mode, tgt, cur) ==
  LET r == ControlHeatingCooling(i, mode, tgt, cur)
  IN /\ active' = [active EXCEPT ![i] = r.active]
     /\ last' = [op |-> op, inst |-> i, dec |-> r.dec, cmds |-> r.cmds,
                 by_us0 |-> on_by_us[i]]
     /\ IF r.cmds = <<>>
          THEN /\ temp_lock' = [temp_lock EXCEPT ![i] = [holder |-> 0, waiters |-> waiting]]
               /\ passes' = [passes EXCEPT ![i][t] = Idle]
               /\ UNCHANGED <<inflight, on_by_us>>
          ELSE /\ Len(inflight) < MaxInflight
               /\ inflight' = Append(inflight, Head(r.cmds))
               /\ on_by_us' = [on_by_us EXCEPT ![i] =
                                 IF Head(r.cmds).entity = actuator_switch(i) THEN TRUE ELSE @]
               /\ temp_lock' = [temp_lock EXCEPT ![i] = [holder |-> t, waiters |-> waiting]]
               /\ passes' = [passes EXCEPT ![i][t] = [pc |-> "call", todo |-> Tail(r.cmds)]]

\* async_added_to_hass up to the first suspension of its control pass
AddedToHassBegins(i, old) ==
  /\ ~added[i]
  /\ hass_running
  /\ added' = [added EXCEPT ![i] = TRUE]
  /\ hvac_mode' = [hvac_mode EXCEPT ![i] = RestoredMode(i, old)]
  /\ target_temperature' = [target_temperature EXCEPT ![i] = RestoredTarget(i, old)]
  /\ cur_temp' = [cur_temp EXCEPT ![i] = UpdateTemp(i, sensor)]
  /\ hvac_action' = [hvac_action EXCEPT ![i] =
                       IF main_thermostat[i] THEN UpdateMainAction(i, main) ELSE @]
  /\ Section("added", i, 1, <<>>, hvac_mode'[i], target_temperature'[i], cur_temp'[i])
  /\ UNCHANGED <<sw, sensor, main, hass_running, configVars, start_listener, pending>>

\* async_set_hvac_mode with a mode other than off, up to the first suspension of
\* its control pass: the mode is set, then the pass enters the section or waits
\* for the lock.
SetHvacModeBegins(i, mode, t) ==
  /\ added[i]
  /\ mode # "off"
  /\ passes[i][t].pc = "idle"
  /\ \A u \in Passes : u < t => passes[i][u].pc # "idle"
  /\ hvac_mode' = [hvac_mode EXCEPT ![i] = mode]
  /\ IF LockFree(i)
       THEN Section("set_mode", i, t, temp_lock[i].waiters, mode,
                    target_temperature[i], cur_temp[i])
       ELSE /\ temp_lock' = [temp_lock EXCEPT ![i].waiters = Append(@, t)]
            /\ passes' = [passes EXCEPT ![i][t] = [pc |-> "wait", todo |-> <<>>]]
            /\ last' = Quiet
            /\ UNCHANGED <<inflight, active, on_by_us>>
  /\ UNCHANGED <<sw, sensor, main, hass_running, configVars, added, start_listener,
                 target_temperature, cur_temp, hvac_action, pending>>

\* A control task created by an event handler starts: it enters the section,
\* or waits for the lock behind the passes that wait already.
PassBegins(i, t) ==
  /\ pending[i] > 0
  /\ passes[i][t].pc = "idle"
  /\ \A u \in Passes : u < t => passes[i][u].pc # "idle"
  /\ pending' = [pending EXCEPT ![i] = @ - 1]
  /\ IF LockFree(i)
       THEN Section("control", i, t, temp_lock[i].waiters, hvac_mode[i],
                    target_temperature[i], cur_temp[i])
       ELSE /\ temp_lock' = [temp_lock EXCEPT ![i].waiters = Append(@, t)]
            /\ passes' = [passes EXCEPT ![i][t] = [pc |-> "wait", todo |-> <<>>]]
            /\ last' = Quiet
            /\ UNCHANGED <<inflight, active, on_by_us>>
  /\ UNCHANGED <<sw, sensor, main, hass_running, configVars, added, start_listener,
                 hvac_mode, target_temperature, cur_temp, hvac_action>>

\* The lock has been released and the pass that waited longest takes it.
PassWakes(i, t) ==
  /\ passes[i][t].pc = "wait"
  /\ temp_lock[i].holder = 0
  /\ temp_lock[i].waiters # <<>>
  /\ Head(temp_lock[i].waiters) = t
  /\ Section("control", i, t, Tail(temp_lock[i].waiters), hvac_mode[i],
             target_temperature[i], cur_temp[i])
  /\ UNCHANGED <<sw, sensor, main, hass_running, configVars, added, start_listener,
                 hvac_mode, target_temperature, cur_temp, hvac_action, pending>>

\* A suspended async_call returns to pass t: the pass hands its next command to
\* the host (the handoff's turn_off, after the turn_on), or leaves the section.
CallReturns(i, t) ==
  /\ passes[i][t].pc = "call"
  /\ IF passes[i][t].todo = <<>>
       THEN /\ temp_lock' = [temp_lock EXCEPT ![i].holder = 0]
            /\ passes' = [passes EXCEPT ![i][t] = Idle]
            /\ UNCHANGED <<inflight, on_by_us>>
       ELSE /\ Len(inflight) < MaxInflight
            /\ inflight' = Append(inflight, Head(passes[i][t].todo))
            /\ on_by_us' = [on_by_us EXCEPT ![i] =
                              IF Head(passes[i][t].todo).entity = actuator_switch(i)
                                THEN TRUE ELSE @]
            /\ passes' = [passes EXCEPT ![i][t].todo = Tail(@)]
            /\ UNCHANGED temp_lock
  /\ last' = Quiet
  /\ UNCHANGED <<sw, sensor, main, hass_running, configVars, added, start_listener,
                 hvac_mode, target_temperature, cur_temp, hvac_action, active, pending>>

\* Mutant: the except clause of the actuator method logs and leaves _on_by_us
\* as the method set it before the call.
SectionRaises_KeepsFlag(op, i, t, waiting, mode, tgt, cur) ==
  LET r == ControlHeatingCooling(i, mode, tgt, cur)
  IN /\ r.cmds # <<>>
     /\ active' = [active EXCEPT ![i] = r.active]
     /\ last' = [op |-> "raised", inst |-> i, dec |-> r.dec, cmds |-> <<>>,
                 by_us0 |-> on_by_us[i]]
     /\ on_by_us' = [on_by_us EXCEPT ![i] =
                       IF Head(r.cmds).entity = actuator_switch(i) THEN TRUE ELSE @]
     /\ temp_lock' = [temp_lock EXCEPT ![i] = [holder |-> 0, waiters |-> waiting]]
     /\ passes' = [passes EXCEPT ![i][t] = Idle]
     /\ UNCHANGED inflight

\* Mutant: each async_call of the handoff has its own except clause: after the
\* turn_on has raised, the turn_off of the requester is still handed to the host.
SectionRaises_TurnsOffAnyway(op, i, t, waiting, mode, tgt, cur) ==
  LET r == ControlHeatingCooling(i, mode, tgt, cur)
      rest == Tail(r.cmds)
  IN /\ r.cmds # <<>>
     /\ active' = [active EXCEPT ![i] = r.active]
     /\ last' = [op |-> "raised", inst |-> i, dec |-> r.dec, cmds |-> rest,
                 by_us0 |-> on_by_us[i]]
     /\ Len(inflight) + Len(rest) <= MaxInflight
     /\ inflight' = inflight \o rest
     /\ on_by_us' = [on_by_us EXCEPT ![i] = rest # <<>>]
     /\ temp_lock' = [temp_lock EXCEPT ![i] = [holder |-> 0, waiters |-> waiting]]
     /\ passes' = [passes EXCEPT ![i][t] = Idle]

\* The locked section when the first async_call of the actuator method raises
\* (the host knows no such service, or rejects the call): nothing is handed to
\* the host, the except clause of _async_actuator_turn_on/_turn_off logs and
\* resets _on_by_us, the method returns and the pass leaves the section.
SectionRaises(op, i, t, waiting, mode, tgt, cur) ==
  LET r == ControlHeatingCooling(i, mode, tgt, cur)
  IN /\ r.cmds # <<>>
     /\ active' = [active EXCEPT ![i] = r.active]
     /\ last' = [op |-> "raised", inst |-> i, dec |-> r.dec, cmds |-> <<>>,
                 by_us0 |-> on_by_us[i]]
     /\ on_by_us' = [on_by_us EXCEPT ![i] = FALSE]
     /\ temp_lock' = [temp_lock EXCEPT ![i] = [holder |-> 0, waiters |-> waiting]]
     /\ passes' = [passes EXCEPT ![i][t] = Idle]
     /\ UNCHANGED inflight

\* A control task starts with the lock free and its first async_call raises.
PassBeginsRaises(i, t) ==
  /\ pending[i] > 0
  /\ passes[i][t].pc = "idle"
  /\ \A u \in Passes : u < t => passes[i][u].pc # "idle"
  /\ LockFree(i)
  /\ pending' = [pending EXCEPT ![i] = @ - 1]
  /\ SectionRaises("control", i, t, temp_lock[i].waiters, hvac_mode[i],
                   target_temperature[i], cur_temp[i])
  /\ UNCHANGED <<sw, sensor, main, hass_running, configVars, added, start_listener,
                 hvac_mode, target_temperature, cur_temp, hvac_action>>

\* The handoff's turn_on has returned to pass t and its turn_off, the second
\* async_call of _async_actuator_turn_off, raises.
CallReturnsRaises(i, t) ==
  /\ passes[i][t].pc = "call"
  /\ passes[i][t].todo # <<>>
  /\ on_by_us' = [on_by_us EXCEPT ![i] = FALSE]
  /\ temp_lock' = [temp_lock EXCEPT ![i].holder = 0]
  /\ passes' = [passes EXCEPT ![i][t] = Idle]
  /\ last' = [op |-> "raised", inst |-> i, dec |-> "off", cmds |-> <<>>,
              by_us0 |-> on_by_us[i]]
  /\ UNCHANGED <<sw, sensor, main, inflight, hass_running, configVars, added,
                 start_listener, hvac_mode, target_temperature, cur_temp, hvac_action,
                 active, pending>>

\* ---------------------------------------------------------- specifications
\* The state after __init__ of every instance, in a host whose state store
\* holds the entities in any state.
Constructed ==
  /\ added = [i \in Inst |-> FALSE]
  /\ start_listener = [i \in Inst |-> FALSE]
  /\ cur_temp = [i \in Inst |-> NoTemp]
  /\ target_temperature_low = [i \in Inst |-> DEFAULT_TARGET_TEMP_LOW]
  /\ target_temperature_high = [i \in Inst |-> DEFAULT_TARGET_TEMP_HIGH]
  /\ hvac_action = [i \in Inst |-> "off"]
  /\ active = [i \in Inst |-> FALSE]
  /\ on_by_us = [i \in Inst |-> FALSE]
  /\ pending = [i \in Inst |-> 0]
  /\ temp_lock = [i \in Inst |-> Unlocked]
  /\ passes = [i \in Inst |-> [t \in Passes |-> Idle]]
  /\ inflight = <<>>
  /\ last = Quiet

\* The configuration the specifications without upstream thermostat share:
\* rooms at 70.0 (or, where reading is one of the choices, sensors that never
\* report, so that the instance never becomes active), the host running, mode
\* off and target 72.0 configured.
Plain(readings) ==
  /\ Constructed
  /\ sensor \in {[s \in Sensors |-> v] : v \in readings}
  /\ main = NoMain
  /\ hass_running = TRUE
  /\ main_thermostat = [i \in Inst |-> FALSE]
  /\ hvac_mode = [i \in Inst |-> "off"]
  /\ target_temperature = [i \in Inst |-> 720]

\* --- SpecGroup: one thermostat in a group.  Its user switches modes (at 70.0
\* with target 72.0, heat opens the damper and cool closes it), the switches of
\* the group are toggled from outside in any way, the arbiter shares the ceiling.
InitGroup ==
  /\ Plain({"70.0", "unavailable"})
  /\ sw \in [Switches -> SwitchStates]
  /\ actuator_switches \in GroupLists \ {<<>>}
  /\ max_switches_off \in {1, 2}

NextGroup ==
  \/ \E old \in OldStates : AddedToHass(1, old)
  \/ ControlTask(1)
  \/ \E m \in {"heat", "cool", "off"} : SetHvacMode(1, m)
  \/ \E e \in Switches, v \in SwitchStates : ExternalToggle(e, v)
  \/ Deliver

SpecGroup == InitGroup /\ [][NextGroup]_vars

\* --- SpecSeq: two thermostats in one group, nobody else touches the switches,
\* and a handler starts only when the commands of the one before have been
\* applied.  The group starts within its ceiling.
InitSeq ==
  /\ Plain({"70.0"})
  /\ sw \in [Switches -> SwitchStates]
  /\ actuator_switches \in GroupLists \ {<<>>}
  /\ max_switches_off \in {1, 2}
  /\ OffCount <= max_switches_off

NextSeq ==
  \/ /\ inflight = <<>>
     /\ \E i \in Inst : \/ \E old \in OldStates : AddedToHass(i, old)
                        \/ ControlTask(i)
                        \/ \E m \in {"heat", "cool", "off"} : SetHvacMode(i, m)
  \/ Deliver

SpecSeq == InitSeq /\ [][NextSeq]_vars

\* --- SpecRace: SpecSeq without the waiting: two thermostats in one group,
\* nobody else touches the switches, and a handler of one instance may run
\* while commands of the other are still in flight.
NextRace ==
  \/ \E i \in Inst, old \in OldStates : AddedToHass(i, old)
  \/ \E i \in Inst : ControlTask(i)
  \/ \E i \in Inst, m \in {"heat", "cool", "off"} : SetHvacMode(i, m)
  \/ Deliver

SpecRace == InitSeq /\ [][NextRace]_vars

\* --- SpecTemp: one thermostat without upstream thermostat and without a group
\* (the default ceiling, an empty list): its two sensors change, its user sets
\* modes and targets, its damper is toggled from outside.
InitTemp ==
  /\ Plain({"70.0"})
  /\ sw \in {[e \in Switches |-> IF e = actuator_switch(1) THEN v ELSE "on"] : v \in SwitchStates}
  /\ actuator_switches = <<>>
  /\ max_switches_off = DEFAULT_MAX_SWITCHES_OFF

NextTemp ==
  \/ \E old \in OldStates : AddedToHass(1, old)
  \/ ControlTask(1)
  \/ \E m \in HVAC_MODES : SetHvacMode(1, m)
  \/ \E t \in Targets : SetTemperature(1, t)
  \/ \E s \in {1, 2}, v \in SensorStates \ {"77.0", "unavailable"} : SensorChanged(s, v)
  \/ \E v \in SwitchStates : ExternalToggle(actuator_switch(1), v)
  \/ Deliver

SpecTemp == InitTemp /\ [][NextTemp]_vars

\* --- SpecMain: one thermostat that follows an upstream thermostat, last in the
\* priority list of its group.  The upstream entity changes in any way, the
\* room's one working sensor changes, the user sets modes, the damper is
\* toggled from outside; the other members of the group are all on or all off.
InitMain ==
  /\ Constructed
  /\ sensor = [s \in Sensors |-> IF s = 1 THEN "70.0" ELSE "unavailable"]
  /\ main \in {NoMain, [state |-> "ok", hvac_action |-> "idle", hvac_mode |-> "heat"]}
  /\ hass_running = TRUE
  /\ main_thermostat = [i \in Inst |-> i = 1]
  /\ hvac_mode = [i \in Inst |-> "off"]
  /\ target_temperature = [i \in Inst |-> 720]
  /\ sw \in {[e \in Switches |-> IF e = actuator_switch(1) THEN v ELSE w] :
               v \in SwitchStates, w \in {"on", "off"}}
  /\ actuator_switches = Descending(NumSwitches)
  /\ max_switches_off = 1

NextMain ==
  \/ \E old \in OldStates : AddedToHass(1, old)
  \/ ControlTask(1)
  \/ \E m \in HVAC_MODES : SetHvacMode(1, m)
  \/ \E v \in Readings : SensorChanged(1, v)
  \/ \E m \in {NoMain} \cup {x \in MainEntity : x.state = "ok" \/ x = MainUnavailable} :
       MainThermostatChanged(m)
  \/ \E v \in SwitchStates : ExternalToggle(actuator_switch(1), v)
  \/ Deliver

SpecMain == InitMain /\ [][NextMain]_vars

\* --- SpecAgg: the aggregation on its own.  The sensors are in any state and
\* keep changing, the cache holds nothing or an earlier mean, and
\* _async_update_temp is called on whatever the state store holds.
InitAgg ==
  /\ added = [i \in Inst |-> FALSE]
  /\ start_listener = [i \in Inst |-> FALSE]
  /\ cur_temp \in [Inst -> {NoTemp, 715 * Scale}]
  /\ target_temperature_low = [i \in Inst |-> DEFAULT_TARGET_TEMP_LOW]
  /\ target_temperature_high = [i \in Inst |-> DEFAULT_TARGET_TEMP_HIGH]
  /\ hvac_action = [i \in Inst |-> "off"]
  /\ active = [i \in Inst |-> FALSE]
  /\ on_by_us = [i \in Inst |-> FALSE]
  /\ pending = [i \in Inst |-> 0]
  /\ temp_lock = [i \in Inst |-> Unlocked]
  /\ passes = [i \in Inst |-> [t \in Passes |-> Idle]]
  /\ inflight = <<>>
  /\ last = Quiet
  /\ sensor \in [Sensors -> SensorStates]
  /\ main = NoMain
  /\ hass_running = TRUE
  /\ main_thermostat = [i \in Inst |-> FALSE]
  /\ hvac_mode = [i \in Inst |-> "off"]
  /\ target_temperature = [i \in Inst |-> 720]
  /\ sw = [e \in Switches |-> "on"]
  /\ actuator_switches = <<>>
  /\ max_switches_off = DEFAULT_MAX_SWITCHES_OFF

NextAgg ==
  \/ \E i \in Inst : UpdateTempCalled(i)
  \/ \E s \in Sensors, v \in SensorStates : SensorChanged(s, v)

SpecAgg == InitAgg /\ [][NextAgg]_vars

\* --- SpecLock: one thermostat, first in its group, whose control passes run
\* step by step.  Its room is cold or warm, the switches of the group are
\* toggled from outside, and every event starts another pass.
InitLock ==
  /\ Constructed
  /\ sensor = [s \in Sensors |-> IF s = 1 THEN "68.0" ELSE "unavailable"]
  /\ main = NoMain
  /\ hass_running = TRUE
  /\ main_thermostat = [i \in Inst |-> FALSE]
  /\ hvac_mode = [i \in Inst |-> "off"]
  /\ target_temperature = [i \in Inst |-> 720]
  /\ sw \in [Switches -> {"on", "off"}]
  /\ actuator_switches = Ascending(NumSwitches)
  /\ max_switches_off = 1

NextLock ==
  \/ \E old \in OldStates : AddedToHassBegins(1, old)
  \/ \E t \in Passes : PassBegins(1, t)
  \/ \E t \in Passes : PassWakes(1, t)
  \/ \E t \in Passes : CallReturns(1, t)
  \/ \E v \in {"68.0", "72.5"} : SensorChanged(1, v)
  \/ \E e \in Switches, v \in {"on", "off"} : ExternalToggle(e, v)
  \/ Deliver

SpecLock == InitLock /\ [][NextLock]_vars

\* --- SpecFail: SpecLock in a host whose services.async_call may raise.
NextFail ==
  \/ \E old \in OldStates : AddedToHassBegins(1, old)
  \/ \E t \in Passes : PassBegins(1, t)
  \/ \E t \in Passes : PassWakes(1, t)
  \/ \E t \in Passes : CallReturns(1, t)
  \/ \E v \in {"68.0", "72.5"} : SensorChanged(1, v)
  \/ \E e \in Switches, v \in {"on", "off"} : ExternalToggle(e, v)
  \/ Deliver
  \/ \E t \in Passes : PassBeginsRaises(1, t)
  \/ \E t \in Passes : CallReturnsRaises(1, t)

SpecFail == InitLock /\ [][NextFail]_vars

\* --- SpecCascade: two thermostats in one group whose rooms, modes and targets
\* stay as they are once the instances are added, and nobody else touches the
\* switches.  The event loop runs every task it was given and the host applies
\* every service call it accepted.
NextCascade ==
  \/ \E i \in Inst, old \in OldStates : AddedToHass(i, old)
  \/ \E i \in Inst : ControlTask(i)
  \/ Deliver

SpecCascade ==
  /\ InitSeq
  /\ [][NextCascade]_vars
  /\ WF_vars(Deliver)
  /\ \A i \in Inst : WF_vars(ControlTask(i))

\* --- SpecOff: SpecLock with a user who changes the mode.  A change to off
\* does not take the lock: it runs while passes are suspended in the section
\* or wait for it.
NextOff ==
  \/ \E old \in OldStates : AddedToHassBegins(1, old)
  \/ \E t \in Passes : PassBegins(1, t)
  \/ \E t \in Passes : PassWakes(1, t)
  \/ \E t \in Passes : CallReturns(1, t)
  \/ \E t \in Passes : SetHvacModeBegins(1, "heat", t)
  \/ SetHvacMode(1, "off")
  \/ \E v \in {"68.0", "72.5"} : SensorChanged(1, v)
  \/ \E e \in Switches, v \in {"on", "off"} : ExternalToggle(e, v)
  \/ Deliver

SpecOff == InitLock /\ [][NextOff]_vars

\* --- SpecBoot: one thermostat without upstream thermostat is added while the
\* host is still starting; its sensors and its damper change during the boot,
\* and the host then fires its start event.
InitBoot ==
  /\ Constructed
  /\ sensor = [s \in Sensors |-> "70.0"]
  /\ main = NoMain
  /\ hass_running = FALSE
  /\ main_thermostat = [i \in Inst |-> FALSE]
  /\ hvac_mode = [i \in Inst |-> "off"]
  /\ target_temperature = [i \in Inst |-> 720]
  /\ sw \in {[e \in Switches |-> IF e = actuator_switch(1) THEN v ELSE "on"] : v \in SwitchStates}
  /\ actuator_switches = <<>>
  /\ max_switches_off = DEFAULT_MAX_SWITCHES_OFF

NextBoot ==
  \/ \E old \in OldStates : AddedToHass(1, old)
  \/ HomeAssistantStart
  \/ ControlTask(1)
  \/ \E s \in {1, 2}, v \in Readings : SensorChanged(s, v)
  \/ \E v \in SwitchStates : ExternalToggle(actuator_switch(1), v)
  \/ Deliver

SpecBoot == InitBoot /\ [][NextBoot]_vars

\* --- SpecRestore: one thermostat without upstream thermostat, configured
\* with an initial mode or with none (off), and with a target or with a target
\* of None, is added to a host that saved any state for it.
InitRestore ==
  /\ Constructed
  /\ sensor = [s \in Sensors |-> "70.0"]
  /\ main = NoMain
  /\ hass_running = TRUE
  /\ main_thermostat = [i \in Inst |-> FALSE]
  /\ hvac_mode \in {[i \in Inst |-> m] : m \in {"off", "heat"}}
  /\ target_temperature \in {[i \in Inst |-> t] : t \in {NoTemp, 720}}
  /\ sw \in {[e \in Switches |-> IF e = actuator_switch(1) THEN v ELSE "on"] : v \in SwitchStates}
  /\ actuator_switches = <<>>
  /\ max_switches_off = DEFAULT_MAX_SWITCHES_OFF

NextRestore ==
  \/ \E old \in OldStates : AddedToHass(1, old)
  \/ ControlTask(1)
  \/ \E s \in {1, 2}, v \in Readings : SensorChanged(s, v)
  \/ \E v \in SwitchStates : ExternalToggle(actuator_switch(1), v)
  \/ Deliver

SpecRestore == InitRestore /\ [][NextRestore]_vars

\* --- SpecSolo: one thermostat without upstream thermostat and with no group
\* configured (an empty list), under every ceiling that can be configured.
InitSolo ==
  /\ Plain({"70.0"})
  /\ sw \in {[e \in Switches |-> IF e = actuator_switch(1) THEN v ELSE "on"] : v \in SwitchStates}
  /\ actuator_switches = <<>>
  /\ max_switches_off \in Ceilings

NextSolo ==
  \/ \E old \in OldStates : AddedToHass(1, old)
  \/ ControlTask(1)
  \/ \E m \in {"heat", "cool", "off"} : SetHvacMode(1, m)
  \/ \E s \in {1, 2}, v \in Readings : SensorChanged(s, v)
  \/ \E v \in SwitchStates : ExternalToggle(actuator_switch(1), v)
  \/ Deliver

SpecSolo == InitSolo /\ [][NextSolo]_vars

\* --- SpecRange: one thermostat that follows an upstream thermostat; its user
\* sets single targets and low/high pairs in the modes that use them.
InitRange ==
  /\ Constructed
  /\ sensor = [s \in Sensors |-> IF s = 1 THEN "70.0" ELSE "unavailable"]
  /\ main \in {x \in MainEntity : x.state = "ok" /\ x.hvac_action \in {"heating", "cooling"}}
  /\ hass_running = TRUE
  /\ main_thermostat = [i \in Inst |-> i = 1]
  /\ hvac_mode = [i \in Inst |-> "off"]
  /\ target_temperature = [i \in Inst |-> 720]
  /\ sw \in {[e \in Switches |-> IF e = actuator_switch(1) THEN v ELSE "on"] : v \in SwitchStates}
  /\ actuator_switches = <<>>
  /\ max_switches_off = DEFAULT_MAX_SWITCHES_OFF

NextRange ==
  \/ \E old \in OldStates : AddedToHass(1, old)
  \/ ControlTask(1)
  \/ \E m \in {"heat", "heat_cool", "off"} : SetHvacMode(1, m)
  \/ \E t \in Targets : SetTemperature(1, t)
  \/ \E r \in Ranges : SetTemperatureRange(1, r[1], r[2])
  \/ \E v \in Readings : SensorChanged(1, v)
  \/ Deliver

SpecRange == InitRange /\ [][NextRange]_vars

\* ------------------------------------------------------------------ claims
\* What the claims say about the handler that ran last.  A handler changes no
\* entity of the state store (its commands are in flight), so the switches, the
\* sensors and the upstream entity of the state it leaves are those it read.
Ran == last.op # "none"
Me == actuator_switch(last.inst)
TurnOffRequested == Ran /\ last.dec = "off"
\* the requester's priority index (0: not a member of the group)
MyIndex ==
  IF \E k \in 1..Len(actuator_switches) : actuator_switches[k] = Me
    THEN CHOOSE k \in 1..Len(actuator_switches) : actuator_switches[k] = Me
    ELSE 0
IsOff(k) == sw[actuator_switches[k]] = "off"
NumOff == Cardinality({e \in Switches : sw[e] = "off" /\ \E k \in 1..Len(actuator_switches) : actuator_switches[k] = e})
AtCeiling == NumOff >= max_switches_off
LowerOff == {k \in 1..Len(actuator_switches) : k > MyIndex /\ IsOff(k)}
FirstLowerOff == CHOOSE k \in LowerOff : \A j \in LowerOff : k <= j
\* the commands of the last handler are the newest in flight, in their order
IssuedInOrder ==
  /\ Len(inflight) >= Len(last.cmds)
  /\ SubSeq(inflight, Len(inflight) - Len(last.cmds) + 1, Len(inflight)) = last.cmds
Issued(c) == \E k \in 1..Len(last.cmds) : last.cmds[k] = c

\* C1: with no external toggles and every request's commands applied before the
\* next handler starts, a group that starts with at most max_switches_off
\* members off never has more than max_switches_off members off.
C1_GroupCeiling == NumOff <= max_switches_off

\* C1 witness: a turn-off issued by the plugin is about to bring the group to
\* exactly its ceiling.
C1_Witness ==
  \E i \in Inst :
    /\ inflight = <<Cmd("turn_off", actuator_switch(i))>>
    /\ IsDeviceActive(i)
    /\ \E k \in 1..Len(actuator_switches) : actuator_switches[k] = actuator_switch(i)
    /\ NumOff + 1 = max_switches_off

\* C2: a turn-off request of the member at index i, with the group at or above
\* its ceiling and some member after i off, issues exactly two commands, in this
\* order: turn_on of the first off member after i, then turn_off of member i.
\* No turn-off request turns on a member at an index <= i.
C2_Handoff ==
  TurnOffRequested =>
    /\ IssuedInOrder
    /\ (AtCeiling /\ MyIndex # 0 /\ LowerOff # {}) =>
         last.cmds = <<Cmd("turn_on", actuator_switches[FirstLowerOff]), Cmd("turn_off", Me)>>
    /\ \A k \in 1..Len(actuator_switches) :
         Issued(Cmd("turn_on", actuator_switches[k])) => k > MyIndex

\* C2 witness: the requester is second in the list, the first and the third
\* member are off, and the third is turned on before the requester is turned off.
C2_Witness ==
  /\ TurnOffRequested
  /\ MyIndex = 2
  /\ IsOff(1)
  /\ last.cmds = <<Cmd("turn_on", actuator_switches[3]), Cmd("turn_off", Me)>>

\* C3: a turn-off request of a member of the group, with the group at or above
\* its ceiling and no member after the requester off, issues no command, leaves
\* the requester on and leaves _on_by_us as it was.
C3_Refusal ==
  (TurnOffRequested /\ AtCeiling /\ MyIndex # 0 /\ LowerOff = {}) =>
    /\ last.cmds = <<>>
    /\ sw[Me] = "on"
    /\ on_by_us[last.inst] = last.by_us0

\* C3 witness: a refused request while a member before the requester is off and
\* _on_by_us was set.
C3_Witness ==
  /\ TurnOffRequested
  /\ AtCeiling
  /\ MyIndex > 1
  /\ LowerOff = {}
  /\ IsOff(1)
  /\ last.by_us0
  /\ last.cmds = <<>>

\* The scenario of C4: a group [A, B, C] with ceiling 1, A and B off, C on, and
\* a turn-off request for C.
C4_Scenario ==
  /\ TurnOffRequested
  /\ Len(actuator_switches) = 3
  /\ MyIndex = 3
  /\ max_switches_off = 1
  /\ IsOff(1)
  /\ IsOff(2)
  /\ sw[Me] = "on"

\* C4 as stated: the request hands off, turning A or B on and then C off.
C4_AsStated ==
  C4_Scenario =>
    /\ Len(last.cmds) = 2
    /\ last.cmds[1] \in {Cmd("turn_on", actuator_switches[1]), Cmd("turn_on", actuator_switches[2])}
    /\ last.cmds[2] = Cmd("turn_off", Me)

\* C4 amended: in the scenario the request is refused: no command is issued, so
\* C stays on and two members stay off.
C4_Refused ==
  C4_Scenario =>
    /\ last.cmds = <<>>
    /\ NumOff = 2
    /\ sw[Me] = "on"

\* C4 witness: the control task of C has requested the turn-off in the scenario,
\* with nothing else in flight.
C4_Witness == C4_Scenario /\ last.op = "control" /\ inflight = <<>>

\* the arbiter refuses a turn-off of the last handler's actuator
Refuses == AtCeiling /\ (MyIndex = 0 \/ LowerOff = {})

\* C9 as stated: async_set_hvac_mode(OFF) with the actuator on always issues a
\* turn-off command for it, whatever the group's off-count.
C9_AsStated ==
  (last.op = "set_off" /\ sw[Me] = "on" /\ MyIndex # 0) => Issued(Cmd("turn_off", Me))

\* C9 amended: async_set_hvac_mode(OFF) with the actuator on always requests the
\* turn-off from the arbiter, whatever the temperature and whether or not the
\* instance is active; the turn-off command is issued, as the last command,
\* exactly when the arbiter does not refuse.  With the actuator not on, nothing
\* is issued.
C9_SetOff ==
  last.op = "set_off" =>
    /\ hvac_mode[last.inst] = "off"
    /\ sw[Me] = "on" =>
         /\ last.dec = "off"
         /\ Issued(Cmd("turn_off", Me)) <=> ~Refuses
         /\ ~Refuses => last.cmds[Len(last.cmds)] = Cmd("turn_off", Me)
    /\ sw[Me] # "on" => last.cmds = <<>>

\* C9 witness: an instance that never became active is switched off and its
\* actuator is commanded off.
C9_Witness ==
  /\ last.op = "set_off"
  /\ ~active[last.inst]
  /\ sw[Me] = "on"
  /\ AtCeiling
  /\ Issued(Cmd("turn_off", Me))

\* The last handler ran a control pass (_async_control_heating_cooling).
PassRan == last.op \in {"added", "control", "set_mode", "set_temp"}
Mode == hvac_mode[last.inst]
\* the cached temperature against the two thresholds, in units of 1/(10*Scale)
Cur == cur_temp[last.inst]
LowThreshold == (target_temperature[last.inst] - DEFAULT_TOLERANCE) * Scale
HighThreshold == (target_temperature[last.inst] + DEFAULT_TOLERANCE) * Scale
Decides == PassRan /\ active[last.inst] /\ Mode # "off"

\* C5 as stated: without upstream thermostat, a pass that finds the actuator on
\* commands it off in heat mode if and only if current >= target + hot_tolerance,
\* in cool mode if and only if current <= target - cold_tolerance.
C5_AsStated ==
  (Decides /\ ~main_thermostat[last.inst] /\ sw[Me] = "on") =>
    /\ Mode = "heat" => (Issued(Cmd("turn_off", Me)) <=> Cur >= HighThreshold)
    /\ Mode = "cool" => (Issued(Cmd("turn_off", Me)) <=> Cur <= LowThreshold)

\* C6: without upstream thermostat, a pass of an active instance that finds the
\* actuator not on commands it on in heat mode if and only if
\* current <= target - cold_tolerance, and in cool mode if and only if
\* current >= target + hot_tolerance; the command is a single turn_on of the
\* instance's own actuator.
C6_TurnOn ==
  (Decides /\ ~main_thermostat[last.inst] /\ sw[Me] # "on") =>
    /\ Mode = "heat" => (Issued(Cmd("turn_on", Me)) <=> Cur <= LowThreshold)
    /\ Mode = "cool" => (Issued(Cmd("turn_on", Me)) <=> Cur >= HighThreshold)
    /\ last.cmds \in {<<>>, <<Cmd("turn_on", Me)>>}

\* C6 witness: sensors at 68.0 and 70.0 (mean 69.0), target 72.0, heat, the
\* actuator off: the control task commands it on.
C6_Witness ==
  /\ last.op = "control"
  /\ last.inst = 1
  /\ sensor[1] = "68.0"
  /\ sensor[2] = "70.0"
  /\ cur_temp[1] = 690 * Scale
  /\ target_temperature[1] = 720
  /\ hvac_mode[1] = "heat"
  /\ sw[actuator_switch(1)] = "off"
  /\ last.cmds = <<Cmd("turn_on", actuator_switch(1))>>

\* C7 as stated: with an upstream thermostat, a pass commands the actuator on in
\* heat mode only if the upstream action is heating or preheating and
\* current <= target - cold_tolerance, in cool mode only if the upstream action
\* is cooling and current >= target + hot_tolerance.
C7_AsStated ==
  (Decides /\ main_thermostat[last.inst] /\ Issued(Cmd("turn_on", Me))) =>
    /\ Mode = "heat" => (MainAction \in {"heating", "preheating"} /\ Cur <= LowThreshold)
    /\ Mode = "cool" => (MainAction = "cooling" /\ Cur >= HighThreshold)

\* The two thermostats are in opposite modes.
Conflict ==
  /\ Decides
  /\ main_thermostat[last.inst]
  /\ main.state # "none"
  /\ \/ Mode = "heat" /\ main.hvac_mode = "cool"
     \/ Mode = "cool" /\ main.hvac_mode = "heat"

\* C8 as stated: a pass that runs with the thermostats in opposite modes commands
\* the actuator off if it is on, whatever the group's state, and never on.
C8_AsStated ==
  Conflict =>
    /\ sw[Me] = "on" => Issued(Cmd("turn_off", Me))
    /\ ~Issued(Cmd("turn_on", Me))

\* C8 amended: a pass of an active instance with the thermostats in opposite
\* modes never commands the actuator on, whatever the temperature; if the
\* actuator is on it requests the turn-off, and the turn-off command is issued
\* exactly when the arbiter does not refuse.
C8_Conflict ==
  Conflict =>
    /\ ~Issued(Cmd("turn_on", Me))
    /\ sw[Me] = "on" =>
         /\ last.dec = "off"
         /\ Issued(Cmd("turn_off", Me)) <=> ~Refuses
    /\ sw[Me] # "on" => last.cmds = <<>>

\* C8 witness: heat against an upstream thermostat in cool mode, the room colder
\* than target - cold_tolerance, and the actuator is commanded off.
C8_Witness ==
  /\ Conflict
  /\ Mode = "heat"
  /\ Cur <= LowThreshold
  /\ sw[Me] = "on"
  /\ last.cmds = <<Cmd("turn_off", Me)>>

\* C10 as stated: a control pass in mode off that finds the actuator on commands
\* it off.
C10_AsStated ==
  (last.op = "control" /\ Mode = "off" /\ active[last.inst] /\ sw[Me] = "on") =>
    Issued(Cmd("turn_off", Me))

\* C10 amended: a control pass in mode off issues no command and leaves
\* _on_by_us as it was, whether the actuator is on or not.
C10_OffIsNoOp ==
  (PassRan /\ Mode = "off") =>
    /\ last.dec = "none"
    /\ last.cmds = <<>>
    /\ on_by_us[last.inst] = last.by_us0

\* C10 witness: the control task of an active instance in mode off has run and
\* the actuator is on.
C10_Witness ==
  /\ last.op = "control"
  /\ Mode = "off"
  /\ active[last.inst]
  /\ sw[Me] = "on"
  /\ inflight = <<>>

\* C12 as stated: every change of the upstream thermostat (to a state that is
\* present and available) schedules a control pass of every instance that
\* follows it.
C12_AsStated ==
  [][\A i \in Inst :
       (main' # main /\ main'.state = "ok" /\ added[i] /\ main_thermostat[i]) => pending'[i] = pending[i] + 1]_vars

\* C15: a control pass that leaves _active false has issued no command, and
\* _active becomes true only in a control pass of that instance, with a cached
\* current temperature (the target temperature is always configured).
C15_ActivePrecondition ==
  [][/\ (PassRan' /\ ~active'[last'.inst]) => last'.cmds = <<>>
     /\ \A i \in Inst :
          (~active[i] /\ active'[i]) =>
            /\ PassRan'
            /\ last'.inst = i
            /\ cur_temp'[i] # NoTemp
            /\ target_temperature'[i] \in Targets]_vars

\* C15 witness: a pass in heat mode of an instance without any reading, its
\* actuator off: nothing is issued and the instance stays inactive.
C15_Witness ==
  /\ PassRan
  /\ Mode = "heat"
  /\ ~active[last.inst]
  /\ Cur = NoTemp
  /\ sw[Me] = "off"
  /\ last.cmds = <<>>

\* The configured sensors of instance i that hold a valid reading in store.
ValidSensors(i, store) ==
  {s \in Sensors : /\ \E k \in 1..Len(temperature_sensors(i)) : temperature_sensors(i)[k] = s
                   /\ store[s] \in Readings}

RECURSIVE SumOfReadings(_, _)
\* the sum of the readings of the sensors of S, in tenths of a degree
SumOfReadings(S, store) ==
  IF S = {} THEN 0
  ELSE LET s == CHOOSE x \in S : TRUE
       IN Float(store[s]) + SumOfReadings(S \ {s}, store)

\* cached is the arithmetic mean of the valid readings of instance i
IsMean(cached, i, store) ==
  cached * Cardinality(ValidSensors(i, store)) = Scale * SumOfReadings(ValidSensors(i, store), store)

\* C16: _async_update_temp sets _cur_temp to the arithmetic mean of the readings
\* of exactly the configured sensors whose state is present, is not
\* unknown/unavailable and parses as a number; with no such sensor it leaves
\* _cur_temp as it was.
C16_Aggregation ==
  [][\A i \in Inst :
       (last'.op = "update_temp" /\ last'.inst = i) =>
         IF ValidSensors(i, sensor) = {}
           THEN cur_temp'[i] = cur_temp[i]
           ELSE IsMean(cur_temp'[i], i, sensor)]_vars

\* C16 witness: of the two sensors of instance 1 one reads 68.0 and the other
\* holds a state that is no number; the cache is 68.0.
C16_Witness ==
  /\ last.op = "update_temp"
  /\ last.inst = 1
  /\ sensor[1] = "68.0"
  /\ sensor[2] = "warm"
  /\ cur_temp[1] = 680 * Scale

\* C17 as stated: once an instance listens to its sensors, whenever at least
\* one of them holds a valid reading the cached temperature is the mean of the
\* readings that are valid now.
C17_AsStated ==
  \A i \in Inst :
    (added[i] /\ ValidSensors(i, sensor) # {}) => IsMean(cur_temp[i], i, sensor)

\* C18 as stated: every change of a sensor an instance listens to schedules a
\* control pass of that instance, whatever the sensor's new state.
C18_AsStated ==
  [][\A i \in Inst, s \in Sensors :
       (sensor'[s] # sensor[s] /\ Subscribed(i, s)) => pending'[i] = pending[i] + 1]_vars

C20_AsStated ==
  (Decides /\ main_thermostat[last.inst] /\ Mode \in {"auto", "heat_cool"}
     /\ Issued(Cmd("turn_on", Me))) =>
    \/ /\ MainMode = "cool"
       /\ Cur >= (DEFAULT_TARGET_TEMP_HIGH - DEFAULT_TOLERANCE) * Scale
    \/ /\ MainMode = "heat"
       /\ Cur <= (DEFAULT_TARGET_TEMP_LOW + DEFAULT_TOLERANCE) * Scale

\* C13: two instances of one group, no external toggles, the group starting
\* within its ceiling: the turn-offs of the two can overlap, and then the group
\* exceeds its ceiling (the witness).  It takes both: the group is over its
\* ceiling only while the actuators of both instances are off, and by one
\* member at most.
C13_Race ==
  /\ NumOff <= max_switches_off + 1
  /\ NumOff > max_switches_off => \A i \in Inst : sw[actuator_switch(i)] = "off"

\* C13 witness: more members are off than the ceiling allows, nothing is in
\* flight, and both instances' actuators are off.
C13_Witness ==
  /\ NumOff > max_switches_off
  /\ inflight = <<>>
  /\ \A i \in Inst : sw[actuator_switch(i)] = "off"
  /\ \A i \in Inst : \E k \in 1..Len(actuator_switches) : actuator_switches[k] = actuator_switch(i)

RECURSIVE AfterCommands(_, _)
\* the switches once the host has applied cmds, in order
AfterCommands(store, cmds) ==
  IF cmds = <<>> THEN store
  ELSE LET c == Head(cmds)
           new == IF c.service = "turn_on" THEN "on" ELSE "off"
       IN AfterCommands([store EXCEPT ![c.entity] = IF @ = "unavailable" THEN @ ELSE new],
                        Tail(cmds))

\* C14 as stated: once a control pass of a member of the group has run and its
\* commands are the only ones to apply, the group is within its ceiling when
\* they have been applied.
C14_AsStated ==
  (PassRan /\ MyIndex # 0 /\ inflight = last.cmds) =>
    Cardinality({k \in 1..Len(actuator_switches) :
                   AfterCommands(sw, inflight)[actuator_switches[k]] = "off"})
      <= max_switches_off

\* pass t of instance i is inside the locked section, suspended at a command
InSection(i, t) == passes[i][t].pc = "call"

\* C11: of one instance at most one control pass is inside its
\* decision-and-command section, and it is the one that holds the lock; a pass
\* reads and decides only when no other pass of the instance is inside, so a
\* pass that begins meanwhile waits until the first has issued all its commands.
C11_Serialized ==
  /\ [](\A i \in Inst :
          /\ Cardinality({t \in Passes : InSection(i, t)}) <= 1
          /\ \A t \in Passes : InSection(i, t) => temp_lock[i].holder = t)
  /\ [][last'.op \in {"added", "control"} =>
          \A t \in Passes : ~InSection(last'.inst, t)]_vars

\* C11 witness: the first pass is suspended in a handoff, its turn_off still to
\* be issued, while a second pass of the instance waits for the lock.
C11_Witness ==
  \E i \in Inst, t, u \in Passes :
    /\ InSection(i, t)
    /\ passes[i][t].todo = <<Cmd("turn_off", actuator_switch(i))>>
    /\ passes[i][u].pc = "wait"
    /\ temp_lock[i] = [holder |-> t, waiters |-> <<u>>]

\* C21: a turn-off request made while fewer members of the group are off than
\* the ceiling allows issues exactly one command, the turn_off of the
\* requester's actuator; no other member of the group is commanded.
C21_DirectTurnOff ==
  (TurnOffRequested /\ NumOff < max_switches_off) =>
    last.cmds = <<Cmd("turn_off", Me)>>

\* C21 witness: ceiling 2, one member after the requester is off: the
\* requester is turned off directly, without a handoff.
C21_Witness ==
  /\ TurnOffRequested
  /\ max_switches_off = 2
  /\ NumOff = 1
  /\ MyIndex # 0
  /\ LowerOff # {}
  /\ last.cmds = <<Cmd("turn_off", Me)>>

\* C22: a member of the group whose state is missing or "unavailable" is not
\* counted as off when the off-count is compared to the ceiling (the requester
\* is turned off directly exactly when the members that read "off" are fewer
\* than the ceiling), and it is never the member a handoff turns on.
C22_Unavailable ==
  TurnOffRequested =>
    /\ (last.cmds = <<Cmd("turn_off", Me)>>) <=> (NumOff < max_switches_off)
    /\ \A k \in 1..Len(actuator_switches) :
         Issued(Cmd("turn_on", actuator_switches[k])) =>
           sw[actuator_switches[k]] = "off"

\* C22 witness: the requester heads the list, the next member is unavailable
\* and the last one is off at ceiling 1: the handoff skips the unavailable
\* member and turns the last one on.
C22_Witness ==
  /\ TurnOffRequested
  /\ max_switches_off = 1
  /\ Len(actuator_switches) = 3
  /\ MyIndex = 1
  /\ sw[actuator_switches[2]] = "unavailable"
  /\ sw[actuator_switches[3]] = "off"
  /\ last.cmds = <<Cmd("turn_on", actuator_switches[3]), Cmd("turn_off", Me)>>

\* C25: with an upstream thermostat configured and its entity absent from the
\* state store, a control pass issues no actuator command and leaves _on_by_us
\* and the mode as they were (the mode as the handler that runs the pass set
\* it, when the pass is the one of a restore or of a mode change).
C25_MissingUpstream ==
  [][(/\ last'.op \in {"added", "control", "set_mode", "set_temp"}
      /\ main_thermostat[last'.inst]
      /\ main.state = "none")
     => /\ last'.cmds = <<>>
        /\ inflight' = inflight
        /\ on_by_us' = on_by_us
        /\ last'.op \in {"control", "set_temp"} => hvac_mode' = hvac_mode]_vars

\* C25 witness: an active instance in a mode other than off, its actuator on,
\* ran a control pass with the upstream entity missing.
C25_Witness ==
  /\ last.op = "control"
  /\ main_thermostat[last.inst]
  /\ main.state = "none"
  /\ active[last.inst]
  /\ Mode \in {"heat", "cool"}
  /\ sw[Me] = "on"
  /\ last.cmds = <<>>

\* C29 as stated: whenever the upstream thermostat's state is unknown or
\* unavailable, or its action attribute is missing, the cached upstream action
\* of an instance that follows it is "off".
C29_AsStated ==
  \A i \in Inst :
    (/\ added[i]
     /\ main_thermostat[i]
     /\ \/ main.state = "unavailable"
        \/ main.state = "ok" /\ main.hvac_action = "missing")
    => hvac_action[i] = "off"

\* C23 as stated: a change of an instance's actuator made from outside always
\* creates a control task of the instance, and the change made by the
\* instance's own turn_on/turn_off command never does.
C23_AsStated ==
  [][\A i \in Inst :
       added[i] =>
         LET e == actuator_switch(i)
         IN /\ (inflight' = inflight /\ sw'[e] # sw[e])
                 => pending'[i] = pending[i] + 1
            /\ (inflight # <<>> /\ inflight' = Tail(inflight) /\ sw'[e] # sw[e])
                 => pending'[i] = pending[i]]_vars

\* C26 as stated: an instance added before the host has finished starting runs
\* no control pass and issues no actuator command until the host's start event
\* fires, whatever sensor and actuator events arrive meanwhile.
C26_AsStated == ~hass_running => (~PassRan /\ inflight = <<>>)

\* C30 as stated: when the instance is added, a configured initial mode and a
\* configured target temperature are kept, whatever state the host saved (the
\* saved values are used only where none was configured).
C30_AsStated ==
  [][\A i \in Inst :
       (~added[i] /\ added'[i]) =>
         /\ hvac_mode[i] # "off" => hvac_mode'[i] = hvac_mode[i]
         /\ target_temperature[i] # NoTemp =>
              target_temperature'[i] = target_temperature[i]]_vars

\* C28 as stated: with an empty group list, every turn-off decision, of a
\* control pass or of a change to mode off, issues the turn_off of the
\* instance's own actuator and nothing else, under every ceiling, 0 included.
C28_AsStated ==
  (TurnOffRequested /\ actuator_switches = <<>>) =>
    last.cmds = <<Cmd("turn_off", Me)>>

\* C27 as stated: a set-temperature request that carries a low/high pair and no
\* single temperature updates target_temperature_low and
\* target_temperature_high of the instance and runs a control pass (a pass of an
\* instance that has a temperature makes it active); a request that carries a
\* single temperature runs the control pass.
C27_AsStated ==
  [][/\ last'.op = "set_range" =>
          /\ target_temperature_low'[last'.inst] = last'.low
          /\ target_temperature_high'[last'.inst] = last'.high
          /\ cur_temp[last'.inst] # NoTemp => active'[last'.inst]
     /\ last'.op = "set_temp" =>
          (cur_temp[last'.inst] # NoTemp => active'[last'.inst])]_vars

\* C24: when the async_call inside _async_actuator_turn_on or
\* _async_actuator_turn_off raises, the control pass ends as any other (it is
\* idle again and the lock is released, nobody is left in the section),
\* _on_by_us is false, and the next change of the actuator creates a control
\* task, as an external change does.
C24_CallFailure ==
  [][/\ last'.op = "raised" =>
          /\ ~on_by_us'[last'.inst]
          /\ temp_lock'[last'.inst].holder = 0
          /\ \A t \in Passes : passes'[last'.inst][t].pc # "call"
     /\ (last.op = "raised" /\ sw'[Me] # sw[Me]) =>
          pending'[last.inst] = pending[last.inst] + 1]_vars

\* C24 witness: the turn_off of a handoff raised after its turn_on was handed
\* to the host, the flag is false and the lock is free.
C24_Witness ==
  /\ last.op = "raised"
  /\ last.dec = "off"
  /\ inflight # <<>>
  /\ inflight[Len(inflight)].service = "turn_on"
  /\ inflight[Len(inflight)].entity # Me
  /\ ~on_by_us[last.inst]
  /\ temp_lock[last.inst].holder = 0

\* C34: a turn-on is never arbitrated: whatever the off-count of the group and
\* its ceiling, a handler that decides to turn the actuator on issues exactly
\* one command, the turn_on of the instance's own actuator, and commands no
\* other member of the group.
C34_TurnOnDirect ==
  (Ran /\ last.dec = "on") => last.cmds = <<Cmd("turn_on", Me)>>

\* C34 witness: the instance turns its actuator on while the group is at its
\* ceiling with another member off.
C34_Witness ==
  /\ Ran
  /\ last.dec = "on"
  /\ MyIndex # 0
  /\ NumOff >= max_switches_off
  /\ \E k \in 1..Len(actuator_switches) : actuator_switches[k] # Me /\ IsOff(k)
  /\ last.cmds = <<Cmd("turn_on", Me)>>

\* the commands of the last handler for the instance's own actuator
OwnCommands == {k \in 1..Len(last.cmds) : last.cmds[k].entity = Me}

\* C35: a control pass issues at most one command for the instance's own
\* actuator: a turn_on only when the actuator, as the pass read it, is not
\* "on", a turn_off only when it is "on".
C35_NoRedundantCommand ==
  PassRan =>
    /\ Cardinality(OwnCommands) <= 1
    /\ Issued(Cmd("turn_on", Me)) => sw[Me] # "on"
    /\ Issued(Cmd("turn_off", Me)) => sw[Me] = "on"

\* C35 witness: a pass of a task found the actuator on and handed off: of its
\* two commands one is for the own actuator, its turn_off.
C35_Witness ==
  /\ last.op = "control"
  /\ sw[Me] = "on"
  /\ Len(last.cmds) = 2
  /\ Cardinality(OwnCommands) = 1
  /\ Issued(Cmd("turn_off", Me))

\* C36: without upstream thermostat, a control pass in mode heat_cool issues no
\* actuator command, whatever the cached temperature, the target and the state
\* of the actuator.
C36_HeatCoolIdle ==
  (PassRan /\ ~main_thermostat[last.inst] /\ Mode = "heat_cool") =>
    /\ last.dec = "none"
    /\ last.cmds = <<>>

\* C36 witness: an active instance in mode heat_cool, its room below the low
\* threshold and its actuator off, ran a pass and issued nothing.
C36_Witness ==
  /\ PassRan
  /\ ~main_thermostat[last.inst]
  /\ Mode = "heat_cool"
  /\ active[last.inst]
  /\ Cur # NoTemp
  /\ Cur <= LowThreshold
  /\ sw[Me] = "off"
  /\ last.cmds = <<>>

\* C37: _active is monotonic: once true it stays true under every sensor event
\* (all sensors losing their reading included), mode change and target change,
\* and with no valid reading left the cached temperature stays as it was, so
\* that the passes keep deciding on it.
C37_ActiveMonotonic ==
  [][\A i \in Inst :
       active[i] =>
         /\ active'[i]
         /\ cur_temp'[i] # NoTemp
         /\ CountValid(sensor', temperature_sensors(i)) = 0 =>
              cur_temp'[i] = cur_temp[i]]_vars

\* C37 witness: an active instance none of whose sensors has a valid reading
\* ran a pass that acted on the cached temperature.
C37_Witness ==
  /\ PassRan
  /\ active[last.inst]
  /\ CountValid(sensor, temperature_sensors(last.inst)) = 0
  /\ Cur # NoTemp
  /\ last.cmds # <<>>

\* the handler that ran last chose a handoff and an async_call of it raised
HandoffRaised ==
  /\ last.op = "raised"
  /\ last.dec = "off"
  /\ MyIndex # 0
  /\ AtCeiling
  /\ LowerOff # {}

\* C33: when the turn_on of the member chosen by a handoff raises (no pass is
\* past its first call when the step begins), the step hands no command to the
\* host: the requester is not turned off in that request, and the failed
\* handoff adds nothing that could raise the off-count of the group.
C33_HandoffAtomic ==
  [][(/\ HandoffRaised'
      /\ \A t \in Passes : passes[last'.inst][t].pc # "call")
     => /\ inflight' = inflight
        /\ last'.cmds = <<>>]_vars

\* C33 witness: a handoff was chosen at the ceiling, its turn_on raised, and
\* nothing is in flight: the member chosen is still off and the requester on.
C33_Witness ==
  /\ HandoffRaised
  /\ inflight = <<>>
  /\ sw[Me] = "on"
  /\ sw[actuator_switches[FirstLowerOff]] = "off"
  /\ \A t \in Passes : passes[last.inst][t].pc = "idle"

\* nothing is in flight and no control task is waiting to run
Quiescent == inflight = <<>> /\ \A i \in Inst : pending[i] = 0

\* C32: with fixed readings, modes and upstream state and no external toggles,
\* the control passes that a turn-off request sets off (a handoff turns on a
\* member further down, whose instance re-runs and may hand off in turn) issue
\* finitely many commands: the group reaches a state with nothing in flight and
\* no task waiting, and stays there.
C32_CascadeTerminates == <>[]Quiescent

\* C32 witness: the second instance, woken by a change of its actuator, ran a
\* pass that handed off further down the list.
C32_Witness ==
  /\ last.op = "control"
  /\ last.inst = 2
  /\ MyIndex # 0
  /\ Len(last.cmds) = 2
  /\ last.cmds[2] = Cmd("turn_off", Me)

\* the step hands the host a turn_on of the actuator of instance i
IssuesOwnTurnOn(i) ==
  /\ Len(inflight') > Len(inflight)
  /\ \E k \in (Len(inflight) + 1)..Len(inflight') :
       inflight'[k] = Cmd("turn_on", actuator_switch(i))

\* C31: an instance hands the host no turn_on of its own actuator while its
\* mode is off, however a change to mode off (which takes no lock) interleaves
\* with the passes that are suspended in the section or wait for the lock.
C31_NoTurnOnWhileOff ==
  [][\A i \in Inst : (added'[i] /\ IssuesOwnTurnOn(i)) => hvac_mode'[i] # "off"]_vars

\* C31 witness: the mode was set to off while a pass was suspended in the call
\* that turns the actuator on; that turn_on, issued in mode heat, is in flight.
C31_Witness ==
  /\ last.op = "set_off"
  /\ hvac_mode[last.inst] = "off"
  /\ \E t \in Passes : passes[last.inst][t].pc = "call"
  /\ \E k \in 1..Len(inflight) : inflight[k] = Cmd("turn_on", Me)
====
